---- MODULE Spec2Model ----
(***************************************************************************)
(* School management front end: the student dashboard (DashboardPage, the  *)
(* variant of src/src/app_dashboard_page.tsx with search, sort, pagination *)
(* and the real-time subscription) and the login page (LoginPage, both     *)
(* variants of src/src/main.tsx), together with the hosted backend table   *)
(* they talk to.                                                           *)
(*                                                                         *)
(* Text is a sequence of one-character strings, so that trimming, the      *)
(* e-mail pattern, lower-casing and password classes are computed.         *)
(* A remote call is one step for "request sent and processed by the        *)
(* backend" and a later step for "response handled"; change events travel  *)
(* in a FIFO channel.                                                      *)
(***************************************************************************)
EXTENDS Integers, Sequences, FiniteSets, TLC

\* ------------------------------------------------------------------ bounds
\* Highest id the backend allocates.
MaxId == 3
\* Change events in flight.
MaxEvents == 2
\* Load responses in flight.
MaxLoads == 2
\* Insert / update / delete responses in flight.
MaxMutations == 2
\* Writes by other sessions during one dashboard session.
MaxRemoteOps == 2
\* Inputs (typing, clicks, selections) the user makes in one session.
MaxUserOps == 4
\* E-mail existence queries in flight.
MaxChecks == 1
\* Auth requests in flight.
MaxAuth == 1
\* Rows of the table the view specification starts from.
ViewRows == 6
\* Rows of the largest table of the pagination runs.
PageRows == 12
\* Rows of the largest table of the pagination-range runs.
PagerRows == 41
\* Longest e-mail text of the validation runs.
MaxEmailLen == 4

\* --------------------------------------------------------------- text
UpperChars ==
    <<"A", "B", "C", "D", "E", "F", "G", "H", "I", "J", "K", "L", "M", "N">>
LowerChars ==
    <<"a", "b", "c", "d", "e", "f", "g", "h", "i", "j", "k", "l", "m", "n">>
DigitChars == {"0", "1", "2", "3", "4", "5", "6", "7", "8", "9"}
SymbolChars == {"!", "@", "#", "$", "%", "^", "&", "*"}
SpaceChars == {" "}

Range(s) == {s[i] : i \in 1..Len(s)}

IsUpper(c) == c \in Range(UpperChars)
IsLower(c) == c \in Range(LowerChars) \/ c \in {"x", "z"}
IsDigit(c) == c \in DigitChars

\* String.prototype.toLowerCase, one character.
LowerChar(c) ==
    IF IsUpper(c)
    THEN LowerChars[CHOOSE i \in 1..Len(UpperChars) : UpperChars[i] = c]
    ELSE c

toLowerCase(s) == [i \in 1..Len(s) |-> LowerChar(s[i])]

\* String.prototype.trim: leading and trailing white space removed.
RECURSIVE TrimLeft(_)
TrimLeft(s) ==
    IF s # <<>> /\ Head(s) \in SpaceChars THEN TrimLeft(Tail(s)) ELSE s

RECURSIVE TrimRight(_)
TrimRight(s) ==
    IF s # <<>> /\ s[Len(s)] \in SpaceChars
    THEN TrimRight(SubSeq(s, 1, Len(s) - 1))
    ELSE s

trim(s) == TrimRight(TrimLeft(s))

\* String.prototype.includes: q occurs in s as a contiguous substring.
includes(s, q) ==
    \E i \in 1..(Len(s) + 1) :
        /\ i + Len(q) - 1 <= Len(s)
        /\ SubSeq(s, i, i + Len(q) - 1) = q

\* Collation rank of a character (localeCompare, and the backend's ORDER BY).
CharRank(c) ==
    IF c \in Range(LowerChars)
    THEN 2 * (CHOOSE i \in 1..Len(LowerChars) : LowerChars[i] = c)
    ELSE IF c \in Range(UpperChars)
    THEN 2 * (CHOOSE i \in 1..Len(UpperChars) : UpperChars[i] = c) + 1
    ELSE IF c = "x" THEN 50
    ELSE IF c = "z" THEN 52
    ELSE 0

\* String.prototype.localeCompare: negative, zero or positive.
RECURSIVE localeCompare(_, _)
localeCompare(a, b) ==
    IF a = <<>> /\ b = <<>> THEN 0
    ELSE IF a = <<>> THEN -1
    ELSE IF b = <<>> THEN 1
    ELSE IF CharRank(Head(a)) < CharRank(Head(b)) THEN -1
    ELSE IF CharRank(Head(a)) > CharRank(Head(b)) THEN 1
    ELSE localeCompare(Tail(a), Tail(b))

\* The pattern without its anchors: /[^\s@]+@[^\s@]+\.[^\s@]+/.test(email)
isValidEmailUnanchored(e) ==
    \E i \in 1..Len(e) : \E j \in 1..Len(e) :
        /\ e[i] = "@"
        /\ e[j] = "."
        /\ 1 < i
        /\ i + 1 < j
        /\ j < Len(e)
        /\ e[i - 1] \notin SpaceChars \cup {"@"}
        /\ e[j + 1] \notin SpaceChars \cup {"@"}
        /\ \A k \in (i + 1)..(j - 1) : e[k] \notin SpaceChars \cup {"@"}

\* /^[^\s@]+@[^\s@]+\.[^\s@]+$/.test(email)
isValidEmail(e) ==
    \E i \in 1..Len(e) : \E j \in 1..Len(e) :
        /\ e[i] = "@"
        /\ e[j] = "."
        /\ 1 < i
        /\ i + 1 < j
        /\ j < Len(e)
        /\ \A k \in 1..Len(e) :
              /\ e[k] \notin SpaceChars
              /\ (k # i => e[k] # "@")

Max(a, b) == IF a >= b THEN a ELSE b
Min(a, b) == IF a <= b THEN a ELSE b

\* s without its i-th element.
RemoveAt(s, i) == SubSeq(s, 1, i - 1) \o SubSeq(s, i + 1, Len(s))

\* Array.prototype.filter with "keep the elements whose id differs from id".
RECURSIVE FilterOutId(_, _)
FilterOutId(s, id) ==
    IF s = <<>> THEN <<>>
    ELSE IF Head(s).id = id THEN FilterOutId(Tail(s), id)
    ELSE <<Head(s)>> \o FilterOutId(Tail(s), id)

\* ------------------------------------------------------------ test data
NameA == <<"A">>
NameB == <<"b">>
NameBlank == <<" ">>
EmailA == <<"a", "@", "x", ".", "c">>
EmailB == <<"b", "@", "x", ".", "c">>
\* Passes the browser's check of an input of type "email", fails isValidEmail.
EmailBad == <<"a", "@", "x">>

\* s with the character c put in after its first k characters.
InsertAt(s, k, c) == SubSeq(s, 1, k) \o <<c>> \o SubSeq(s, k + 1, Len(s))
\* The texts of the validation runs: every text of "a", "@" and "." up to
\* MaxEmailLen characters, and EmailA as it is, with one character left out
\* and with one more " ", "@" or "." anywhere.
EmailStrings ==
    UNION {[1..k -> {"a", "@", "."}] : k \in 0..MaxEmailLen}
        \cup {EmailA}
        \cup {RemoveAt(EmailA, k) : k \in 1..Len(EmailA)}
        \cup {InsertAt(EmailA, k, c) :
                 k \in 0..Len(EmailA), c \in {" ", "@", "."}}

\* What the user can put into the name and e-mail fields.
NameInputs == {NameBlank, NameB}
EmailInputs == {EmailBad, EmailA, EmailB}
\* What the user can put into the search box.
SearchInputs == {<<"B">>, <<"z">>}
\* Names and e-mails other sessions write.
RemoteNames == {NameA, NameB}
RemoteEmails == {EmailA, EmailB}

Student(i, n, e) == [id |-> i, name |-> n, email |-> e]

\* The i-th row of a table of distinct one-letter names and e-mails; names
\* alternate between upper and lower case.
SampleRow(i) ==
    Student(i,
            <<IF i % 2 = 1 THEN UpperChars[i] ELSE LowerChars[i]>>,
            <<LowerChars[i], "@", "x", ".", "c">>)

\* The i-th row of a table of distinct two-letter names and e-mails.
PagerRow(i) ==
    LET hi == ((i - 1) \div Len(LowerChars)) + 1
        lo == ((i - 1) % Len(LowerChars)) + 1
    IN  Student(i,
                <<UpperChars[hi], LowerChars[lo]>>,
                <<LowerChars[hi], LowerChars[lo], "@", "x", ".", "c">>)

\* Tables the backend may hold when a dashboard session starts.
SmallTables == {{}, {SampleRow(1)}, {SampleRow(1), SampleRow(2)}}
FormTables == {{SampleRow(1)}, {SampleRow(1), SampleRow(2)}}
LargeTables == {{SampleRow(i) : i \in 1..ViewRows}}
PageTables == {{SampleRow(i) : i \in 1..n} : n \in 0..PageRows}

\* ------------------------------------------------------------- messages
\* error.message of a failed call to the backend.
ErrorText == "network error"
MsgFillBoth == "Please fill in both name and email fields."
MsgInvalidEmail == "Please enter a valid email address."
MsgInUseByAnother == "This email is already in use by another student."
MsgInUse == "This email is already in use"
MsgCheckError == "Error checking email"
MsgEmailRequired == "Email is required"
MsgEmailInvalid == "Please enter a valid email"
MsgNameRequired == "Name is required"
MsgFetchFailed == "Failed to fetch students: " \o ErrorText
MsgAddFailed == "Failed to add student: " \o ErrorText
MsgUpdateFailed == "Failed to update student: " \o ErrorText
MsgDeleteFailed == "Failed to delete student: " \o ErrorText
MsgUnexpected == "An unexpected error occurred"
MsgAuthFailed == "Invalid login credentials"

\* The success messages, without the name and e-mail they interpolate.
NoSuccess == ""
SuccessAdded(n, e) == "Student added"
SuccessUpdated(n, e) == "Student updated"
SuccessDeleted(n) == "Student deleted"

\* editingStudentId = null
NoId == 0
\* The '…' entry of the pagination range.
Ellipsis == 0

\* ------------------------------------------------------------ variables
VARIABLES
    \* the backend table, its id allocator, and the number of writes other
    \* sessions have made
    backend, nextId, remoteOps,
    \* DashboardPage: mounted, and its React state
    mounted, students, name, email, nameError, emailError,
    successMessage, errorMessage, isSuccessVisible, isErrorVisible,
    successTimeout, errorTimeout, successClears, errorClears,
    loading, emailCheckLoading,
    editingStudentId, sortField, sortOrder, searchQuery, inputValue,
    currentPage,
    \* DashboardPage: timers, effects and calls in flight
    emailDebounce, emailChecks, searchDebounce, pageResetPending,
    loads, mutations, events,
    \* the number of inputs the user has made
    userOps,
    \* LoginPage
    loginVariant, password, passwordError, loginError, loginLoading,
    isSignUp, authRequests, navigated

backendVars == <<backend, nextId, remoteOps>>
formVars == <<name, email, nameError, emailError, editingStudentId>>
checkVars == <<emailCheckLoading, emailDebounce, emailChecks>>
\* The fade-out of the banners: the visibility flags, whether the 3 s timer
\* of the last effect run is pending, and how many 1 s timers are pending.
fadeVars == <<isSuccessVisible, isErrorVisible, successTimeout, errorTimeout,
              successClears, errorClears>>
msgVars == <<successMessage, errorMessage, fadeVars>>
sortVars == <<sortField, sortOrder>>
searchVars == <<searchQuery, inputValue, searchDebounce, pageResetPending>>
loginVars == <<loginVariant, password, passwordError, loginError,
               loginLoading, isSignUp, authRequests, navigated>>
localVars == <<mounted, students, formVars, checkVars, msgVars, loading,
               sortVars, searchVars, currentPage, loads, mutations, userOps>>
dashVars == <<localVars, events>>
vars == <<backendVars, dashVars, loginVars>>

NoDebounce == [pending |-> FALSE, value |-> <<>>, editingId |-> NoId]

\* --------------------------------------------------- derived view state
studentsPerPage == 5
maxPagesToShow == 5

\* The comparator without the test of sortOrder.
SortCompareAscending(a, b) ==
    localeCompare(toLowerCase(a[sortField]), toLowerCase(b[sortField]))

\* The comparator of sortedFilteredStudents.
SortCompare(a, b) ==
    IF sortOrder = "asc"
    THEN localeCompare(toLowerCase(a[sortField]), toLowerCase(b[sortField]))
    ELSE localeCompare(toLowerCase(b[sortField]), toLowerCase(a[sortField]))

\* Array.prototype.sort is stable: x goes before the first element that
\* compares greater than it.
RECURSIVE SortInsert(_, _)
SortInsert(x, sorted) ==
    IF sorted = <<>> THEN <<x>>
    ELSE IF SortCompare(Head(sorted), x) > 0 THEN <<x>> \o sorted
    ELSE <<Head(sorted)>> \o SortInsert(x, Tail(sorted))

RECURSIVE SortStudents(_)
SortStudents(s) ==
    IF s = <<>> THEN <<>>
    ELSE SortInsert(s[Len(s)], SortStudents(SubSeq(s, 1, Len(s) - 1)))

MatchesSearch(s) ==
    \/ includes(toLowerCase(s.name), toLowerCase(searchQuery))
    \/ includes(toLowerCase(s.email), toLowerCase(searchQuery))

sortedFilteredStudents == SortStudents(SelectSeq(students, MatchesSearch))

\* Math.ceil(length / studentsPerPage), without the "|| 1".
totalPagesNoFallback ==
    (Len(sortedFilteredStudents) + studentsPerPage - 1) \div studentsPerPage

\* Math.ceil(length / studentsPerPage) || 1
totalPages ==
    LET pages ==
            (Len(sortedFilteredStudents) + studentsPerPage - 1)
                \div studentsPerPage
    IN  IF pages = 0 THEN 1 ELSE pages

\* Array.prototype.slice((currentPage - 1) * 5, currentPage * 5)
paginatedStudents ==
    SubSeq(sortedFilteredStudents,
           (currentPage - 1) * studentsPerPage + 1,
           Min(currentPage * studentsPerPage, Len(sortedFilteredStudents)))

\* The pagination range with an ellipsis after page 1 whenever the window
\* does not start at page 1.
pageRangeGapUnchecked(page, total) ==
    LET delta == maxPagesToShow \div 2
        start0 == Max(1, page - delta)
        endPage == Min(total, start0 + maxPagesToShow - 1)
        startPage ==
            IF endPage = total
            THEN Max(1, endPage - maxPagesToShow + 1)
            ELSE start0
        before == IF startPage > 1 THEN <<1, Ellipsis>> ELSE <<>>
        middle == [i \in 1..(endPage - startPage + 1) |-> startPage + i - 1]
        after ==
            IF endPage < total
            THEN (IF endPage < total - 1 THEN <<Ellipsis>> ELSE <<>>)
                     \o <<total>>
            ELSE <<>>
    IN  before \o middle \o after

\* The body of the pageRange memo, a function of its two dependencies;
\* Ellipsis stands for the '…' entry.
pageRangeOf(page, total) ==
    LET delta == maxPagesToShow \div 2
        start0 == Max(1, page - delta)
        endPage == Min(total, start0 + maxPagesToShow - 1)
        startPage ==
            IF endPage = total
            THEN Max(1, endPage - maxPagesToShow + 1)
            ELSE start0
        before ==
            IF startPage > 1
            THEN <<1>> \o (IF startPage > 2 THEN <<Ellipsis>> ELSE <<>>)
            ELSE <<>>
        middle == [i \in 1..(endPage - startPage + 1) |-> startPage + i - 1]
        after ==
            IF endPage < total
            THEN (IF endPage < total - 1 THEN <<Ellipsis>> ELSE <<>>)
                     \o <<total>>
            ELSE <<>>
    IN  before \o middle \o after

\* useMemo(..., [currentPage, totalPages])
pageRange == pageRangeOf(currentPage, totalPages)

\* -------------------------------------------------------------- backend
\* select('*').order(field, {ascending}): the rows in the order of the key;
\* the order among equal keys is the backend's choice.
RECURSIVE OrderedRows(_, _, _)
OrderedRows(rows, field, order) ==
    IF rows = {} THEN {<<>>}
    ELSE UNION {
        {<<r>> \o t : t \in OrderedRows(rows \ {r}, field, order)} :
            r \in {x \in rows : \A y \in rows :
                      IF order = "asc"
                      THEN localeCompare(x[field], y[field]) <= 0
                      ELSE localeCompare(x[field], y[field]) >= 0}}

\* What a load issued now will answer: the table as it is now, or an error.
LoadAnswers(field, order) ==
    {[error |-> FALSE, data |-> d] : d \in OrderedRows(backend, field, order)}
        \cup {[error |-> TRUE, data |-> <<>>]}

\* select('id').eq('email', e).neq('id', excluding): is there such a row.
EmailTaken(e, excluding) ==
    \E r \in backend : r.email = e /\ (excluding # NoId => r.id # excluding)

\* The e-mail column is unique: an insert or update that would make two rows
\* share an e-mail is refused with code 23505.
ViolatesUnique(e, id) == \E r \in backend : r.email = e /\ r.id # id

Event(type, row) == [type |-> type, row |-> row]

\* insert([{name, email}]).select(): what the backend answers, as the pair
\* <<error code or "ok", returned rows>>.
InsertAnswer(n, e, fail) ==
    IF fail THEN <<"error", <<>>>>
    ELSE IF ViolatesUnique(e, NoId) THEN <<"23505", <<>>>>
    ELSE <<"ok", <<Student(nextId, n, e)>>>>

\* The insert's effect on the table and the change feed.
BackendInsert(n, e, fail) ==
    IF InsertAnswer(n, e, fail)[1] = "ok"
    THEN /\ nextId <= MaxId
         /\ Len(events) < MaxEvents
         /\ backend' = backend \cup {Student(nextId, n, e)}
         /\ nextId' = nextId + 1
         /\ events' = Append(events, Event("INSERT", Student(nextId, n, e)))
    ELSE UNCHANGED <<backend, nextId, events>>

\* update({name, email}).eq('id', id).select(): no error and no row when no
\* row has the id.
UpdateAnswer(id, n, e, fail) ==
    IF fail THEN <<"error", <<>>>>
    ELSE IF \A r \in backend : r.id # id THEN <<"ok", <<>>>>
    ELSE IF ViolatesUnique(e, id) THEN <<"23505", <<>>>>
    ELSE <<"ok", <<Student(id, n, e)>>>>

BackendUpdate(id, n, e, fail) ==
    IF UpdateAnswer(id, n, e, fail) = <<"ok", <<Student(id, n, e)>>>>
    THEN /\ Len(events) < MaxEvents
         /\ backend' = {r \in backend : r.id # id} \cup {Student(id, n, e)}
         /\ events' = Append(events, Event("UPDATE", Student(id, n, e)))
         /\ UNCHANGED nextId
    ELSE UNCHANGED <<backend, nextId, events>>

\* delete().eq('id', id)
DeleteAnswer(id, fail) ==
    IF fail THEN <<"error", <<>>>> ELSE <<"ok", <<>>>>

BackendDelete(id, fail) ==
    IF ~fail /\ \E r \in backend : r.id = id
    THEN /\ Len(events) < MaxEvents
         /\ backend' = {r \in backend : r.id # id}
         /\ events' =
               Append(events,
                      Event("DELETE", CHOOSE r \in backend : r.id = id))
         /\ UNCHANGED nextId
    ELSE UNCHANGED <<backend, nextId, events>>

\* A mutating call in flight: what was sent, and what the backend answered.
Mutation(op, id, n, e, answer) ==
    [op |-> op, id |-> id, name |-> n, email |-> e,
     code |-> answer[1], data |-> answer[2]]

\* ------------------------------------------------------- initial states
InitLogin(variants) ==
    /\ loginVariant \in variants
    /\ password = <<>>
    /\ passwordError = ""
    /\ loginError = ""
    /\ loginLoading = FALSE
    /\ isSignUp = FALSE
    /\ authRequests = <<>>
    /\ navigated = FALSE

InitDashboard(tables) ==
    /\ backend \in tables
    /\ nextId = Cardinality(backend) + 1
    /\ remoteOps = 0
    /\ mounted = FALSE
    /\ students = <<>>
    /\ name = <<>>
    /\ email = <<>>
    /\ nameError = ""
    /\ emailError = ""
    /\ successMessage = NoSuccess
    /\ errorMessage = ""
    /\ isSuccessVisible = FALSE
    /\ isErrorVisible = FALSE
    /\ successTimeout = FALSE
    /\ errorTimeout = FALSE
    /\ successClears = 0
    /\ errorClears = 0
    /\ loading = FALSE
    /\ emailCheckLoading = FALSE
    /\ editingStudentId = NoId
    /\ sortField = "name"
    /\ sortOrder = "asc"
    /\ searchQuery = <<>>
    /\ inputValue = <<>>
    /\ currentPage = 1
    /\ emailDebounce = NoDebounce
    /\ emailChecks = <<>>
    /\ searchDebounce = NoDebounce
    /\ pageResetPending = FALSE
    /\ loads = <<>>
    /\ mutations = <<>>
    /\ events = <<>>
    /\ userOps = 0

\* --------------------------------------------- DashboardPage: banners
\* The fade-out effect with only the timer of the changed message started
\* again, although the cleanup stops both.
FadeEffectChangedOnly ==
    IF successMessage' = successMessage /\ errorMessage' = errorMessage
    THEN UNCHANGED <<isSuccessVisible, isErrorVisible, successTimeout,
                     errorTimeout>>
    ELSE /\ isSuccessVisible' =
               IF successMessage' # successMessage /\ successMessage' # ""
               THEN TRUE ELSE isSuccessVisible
         /\ successTimeout' =
               (successMessage' # successMessage /\ successMessage' # "")
         /\ isErrorVisible' =
               IF errorMessage' # errorMessage /\ errorMessage' # ""
               THEN TRUE ELSE isErrorVisible
         /\ errorTimeout' =
               (errorMessage' # errorMessage /\ errorMessage' # "")

\* The fade-out effect of a render that changed successMessage or
\* errorMessage: the cleanup stops both 3 s timers, and each message that is
\* not empty is made visible and gets a new 3 s timer.  The 1 s timers
\* already started are not stopped.
FadeEffect ==
    IF successMessage' = successMessage /\ errorMessage' = errorMessage
    THEN UNCHANGED <<isSuccessVisible, isErrorVisible, successTimeout,
                     errorTimeout>>
    ELSE /\ isSuccessVisible' =
               IF successMessage' # "" THEN TRUE ELSE isSuccessVisible
         /\ successTimeout' = (successMessage' # "")
         /\ isErrorVisible' =
               IF errorMessage' # "" THEN TRUE ELSE isErrorVisible
         /\ errorTimeout' = (errorMessage' # "")

\* A handler has set its messages: the effect runs, no 1 s timer changes.
MessagesSet == FadeEffect /\ UNCHANGED <<successClears, errorClears>>

\* ------------------------------------------- DashboardPage: load and feed
\* Callbacks run when no passive effect of the last render is pending.
Running == mounted /\ ~pageResetPending
\* The controls are enabled (disabled={loading}).
Interactive == Running /\ ~loading
\* The user makes one more input.
UserInput == Interactive /\ userOps < MaxUserOps /\ userOps' = userOps + 1

\* The mount effects: fetchStudents sets loading and sends the load, the
\* subscription starts.  Under React.StrictMode a development build runs the
\* effects twice, so two loads are sent.
Mount ==
    /\ ~mounted
    /\ mounted' = TRUE
    /\ loading' = TRUE
    /\ currentPage' = 1
    /\ \E strict \in BOOLEAN :
       \E a \in LoadAnswers(sortField, sortOrder) :
       \E b \in LoadAnswers(sortField, sortOrder) :
          loads' = IF strict THEN <<a, b>> ELSE <<a>>
    /\ UNCHANGED <<backendVars, students, formVars, checkVars, msgVars,
                   sortVars, searchVars, mutations, events, loginVars,
                   userOps>>

\* fetchStudents after its await, with setStudents(data || []) run on an
\* error too.
LoadResponseClearing(i) ==
    /\ Running
    /\ i \in 1..Len(loads)
    /\ students' = loads[i].data
    /\ errorMessage' = IF loads[i].error THEN MsgFetchFailed ELSE errorMessage
    /\ loading' = FALSE
    /\ loads' = RemoveAt(loads, i)
    /\ UNCHANGED <<backendVars, mounted, formVars, checkVars, successMessage,
                   sortVars, searchVars, currentPage, mutations, events,
                   loginVars, userOps>>
    /\ MessagesSet

\* fetchStudents after its await: setStudents(data || []) or the error
\* message, then setLoading(false).
LoadResponse(i) ==
    /\ Running
    /\ i \in 1..Len(loads)
    /\ IF loads[i].error
       THEN /\ errorMessage' = MsgFetchFailed
            /\ UNCHANGED students
       ELSE /\ students' = loads[i].data
            /\ UNCHANGED errorMessage
    /\ loading' = FALSE
    /\ loads' = RemoveAt(loads, i)
    /\ UNCHANGED <<backendVars, mounted, formVars, checkVars, successMessage,
                   sortVars, searchVars, currentPage, mutations, events,
                   loginVars,
                   userOps>>
    /\ MessagesSet

\* The subscription callback with an UPDATE that takes the old record out
\* and appends the new one.
ApplyEventMoveToEnd(prev, ev) ==
    IF ev.type = "INSERT" THEN Append(prev, ev.row)
    ELSE IF ev.type = "UPDATE"
    THEN Append(FilterOutId(prev, ev.row.id), ev.row)
    ELSE FilterOutId(prev, ev.row.id)

\* The subscription callback's three setStudents updaters.
ApplyEvent(prev, ev) ==
    IF ev.type = "INSERT" THEN Append(prev, ev.row)
    ELSE IF ev.type = "UPDATE"
    THEN [k \in 1..Len(prev) |->
             IF prev[k].id = ev.row.id THEN ev.row ELSE prev[k]]
    ELSE FilterOutId(prev, ev.row.id)

\* The change feed delivers its oldest event.
DeliverEvent ==
    /\ Running
    /\ events # <<>>
    /\ students' = ApplyEvent(students, Head(events))
    /\ events' = Tail(events)
    /\ UNCHANGED <<backendVars, mounted, formVars, checkVars, msgVars,
                   loading, sortVars, searchVars, currentPage, loads,
                   mutations, loginVars,
                   userOps>>

\* A changed sort key or direction that re-orders the derived view only and
\* starts no load.
SortChangedViewOnly(field, order) ==
    /\ UserInput
    /\ Len(loads) < MaxLoads
    /\ sortField' = field
    /\ sortOrder' = order
    /\ currentPage' = 1
    /\ UNCHANGED <<backendVars, mounted, students, formVars, checkVars,
                   msgVars, loading, searchVars, loads, mutations, events,
                   loginVars>>

\* The effects of a changed sort key or direction: the page reset and
\* fetchStudents with the new order.
SortChanged(field, order) ==
    /\ UserInput
    /\ Len(loads) < MaxLoads
    /\ sortField' = field
    /\ sortOrder' = order
    /\ currentPage' = 1
    /\ loading' = TRUE
    /\ \E a \in LoadAnswers(field, order) : loads' = Append(loads, a)
    /\ UNCHANGED <<backendVars, mounted, students, formVars, checkVars,
                   msgVars, searchVars, mutations, events, loginVars>>

SetSortField(field) == field # sortField /\ SortChanged(field, sortOrder)
SetSortOrder(order) == order # sortOrder /\ SortChanged(sortField, order)

\* ------------------------------------------------------- other sessions
\* Another session inserts a row.
RemoteInsert(n, e) ==
    /\ mounted
    /\ remoteOps < MaxRemoteOps
    /\ remoteOps' = remoteOps + 1
    /\ InsertAnswer(n, e, FALSE)[1] = "ok"
    /\ BackendInsert(n, e, FALSE)
    /\ UNCHANGED <<localVars, loginVars>>

\* Another session changes a row.
RemoteUpdate(id, n, e) ==
    /\ mounted
    /\ remoteOps < MaxRemoteOps
    /\ remoteOps' = remoteOps + 1
    /\ Student(id, n, e) \notin backend
    /\ UpdateAnswer(id, n, e, FALSE) = <<"ok", <<Student(id, n, e)>>>>
    /\ BackendUpdate(id, n, e, FALSE)
    /\ UNCHANGED <<localVars, loginVars>>

\* Another session deletes a row.
RemoteDelete(id) ==
    /\ mounted
    /\ remoteOps < MaxRemoteOps
    /\ remoteOps' = remoteOps + 1
    /\ \E r \in backend : r.id = id
    /\ BackendDelete(id, FALSE)
    /\ UNCHANGED <<localVars, loginVars>>

\* ------------------------------------------------- DashboardPage: form
validateName(value) == IF trim(value) = <<>> THEN MsgNameRequired ELSE ""

validateEmail(value) ==
    IF trim(value) = <<>> THEN MsgEmailRequired
    ELSE IF ~isValidEmail(value) THEN MsgEmailInvalid
    ELSE ""

\* The name input's onChange.
ChangeName(value) ==
    /\ UserInput
    /\ value # name
    /\ name' = value
    /\ nameError' = validateName(value)
    /\ UNCHANGED <<backendVars, mounted, students, email, emailError,
                   editingStudentId, checkVars, msgVars, loading, sortVars,
                   searchVars, currentPage, loads, mutations, events,
                   loginVars>>

\* handleEmailChange: the uniqueness check is (re)scheduled 300 ms ahead for
\* a well-formed value; an ill-formed value leaves a scheduled check alone.
handleEmailChange(value) ==
    /\ UserInput
    /\ value # email
    /\ email' = value
    /\ emailError' = validateEmail(value)
    /\ emailDebounce' =
          IF isValidEmail(value)
          THEN [pending |-> TRUE, value |-> value,
                editingId |-> editingStudentId]
          ELSE emailDebounce
    /\ UNCHANGED <<backendVars, mounted, students, name, nameError,
                   editingStudentId, emailCheckLoading, emailChecks, msgVars,
                   loading, sortVars, searchVars, currentPage, loads,
                   mutations, events, loginVars>>

\* checkEmailUniqueness, when its debounce timer fires: up to the await.
EmailCheckStart ==
    /\ Running
    /\ emailDebounce.pending
    /\ emailDebounce' = NoDebounce
    /\ IF trim(emailDebounce.value) = <<>> \/ ~isValidEmail(emailDebounce.value)
       THEN /\ emailCheckLoading' = FALSE
            /\ UNCHANGED emailChecks
       ELSE /\ Len(emailChecks) < MaxChecks
            /\ emailCheckLoading' = TRUE
            /\ \E fail \in BOOLEAN :
                  emailChecks' =
                     Append(emailChecks,
                            [error |-> fail,
                             taken |-> ~fail /\ EmailTaken(emailDebounce.value,
                                                emailDebounce.editingId)])
    /\ UNCHANGED <<backendVars, mounted, students, formVars, msgVars, loading,
                   sortVars, searchVars, currentPage, loads, mutations,
                   events, loginVars,
                   userOps>>

\* checkEmailUniqueness after its await.
EmailCheckResponse(i) ==
    /\ Running
    /\ i \in 1..Len(emailChecks)
    /\ emailError' =
          IF emailChecks[i].error THEN MsgCheckError
          ELSE IF emailChecks[i].taken THEN MsgInUse
          ELSE ""
    /\ emailCheckLoading' = FALSE
    /\ emailChecks' = RemoveAt(emailChecks, i)
    /\ UNCHANGED <<backendVars, mounted, students, name, email, nameError,
                   editingStudentId, emailDebounce, msgVars, loading,
                   sortVars, searchVars, currentPage, loads, mutations,
                   events, loginVars,
                   userOps>>

\* handleSubmit's validation with the two format checks in the other order.
SubmitErrorFormatFirst ==
    IF trim(email) # <<>> /\ ~isValidEmail(email) THEN MsgInvalidEmail
    ELSE IF trim(name) = <<>> \/ trim(email) = <<>> THEN MsgFillBoth
    ELSE emailError

\* handleSubmit's validation: the message it stops with, or "" to go on.
SubmitError ==
    IF trim(name) = <<>> \/ trim(email) = <<>> THEN MsgFillBoth
    ELSE IF ~isValidEmail(email) THEN MsgInvalidEmail
    ELSE emailError

\* handleSubmit up to its await: validation, setLoading(true), and the
\* update (edit mode) or insert (create mode) sent to the backend.
Submit ==
    /\ UserInput
    /\ IF SubmitError # ""
       THEN /\ errorMessage' = SubmitError
            /\ UNCHANGED <<backend, nextId, loading, mutations, events>>
       ELSE /\ Len(mutations) < MaxMutations
            /\ loading' = TRUE
            /\ UNCHANGED errorMessage
            /\ \E fail \in BOOLEAN :
                  IF editingStudentId # NoId
                  THEN /\ BackendUpdate(editingStudentId, name, email, fail)
                       /\ mutations' =
                             Append(mutations,
                                    Mutation("update", editingStudentId, name,
                                             email,
                                             UpdateAnswer(editingStudentId,
                                                          name, email, fail)))
                  ELSE /\ BackendInsert(name, email, fail)
                       /\ mutations' =
                             Append(mutations,
                                    Mutation("insert", NoId, name, email,
                                             InsertAnswer(name, email, fail)))
    /\ UNCHANGED <<remoteOps, mounted, students, formVars, checkVars,
                   successMessage, sortVars, searchVars, currentPage, loads,
                   loginVars>>
    /\ MessagesSet

\* handleSubmit after its await.
SubmitResponse(i) ==
    /\ Running
    /\ i \in 1..Len(mutations)
    /\ mutations[i].op \in {"insert", "update"}
    /\ mutations' = RemoveAt(mutations, i)
    /\ loading' = FALSE
    /\ IF mutations[i].code # "ok"
       THEN /\ errorMessage' =
                  IF mutations[i].code = "23505" THEN MsgInUseByAnother
                  ELSE IF mutations[i].op = "update" THEN MsgUpdateFailed
                  ELSE MsgAddFailed
            /\ UNCHANGED <<formVars, successMessage>>
       ELSE /\ successMessage' =
                  IF Len(mutations[i].data) > 0
                  THEN IF mutations[i].op = "update"
                       THEN SuccessUpdated(mutations[i].name,
                                           mutations[i].email)
                       ELSE SuccessAdded(mutations[i].name,
                                         mutations[i].email)
                  ELSE successMessage
            /\ name' = <<>>
            /\ email' = <<>>
            /\ nameError' = ""
            /\ emailError' = ""
            /\ editingStudentId' = NoId
            /\ UNCHANGED errorMessage
    /\ UNCHANGED <<backendVars, mounted, students, checkVars, sortVars,
                   searchVars, currentPage, loads, events, loginVars,
                   userOps>>
    /\ MessagesSet

\* The Edit button of a listed student.
handleEdit(s) ==
    /\ UserInput
    /\ s \in Range(paginatedStudents)
    /\ name' = s.name
    /\ email' = s.email
    /\ editingStudentId' = s.id
    /\ nameError' = validateName(s.name)
    /\ emailError' = validateEmail(s.email)
    /\ UNCHANGED <<backendVars, mounted, students, checkVars, msgVars,
                   loading, sortVars, searchVars, currentPage, loads,
                   mutations, events, loginVars>>

\* The Cancel button, shown in edit mode.
handleCancelEdit ==
    /\ UserInput
    /\ editingStudentId # NoId
    /\ name' = <<>>
    /\ email' = <<>>
    /\ nameError' = ""
    /\ emailError' = ""
    /\ editingStudentId' = NoId
    /\ UNCHANGED <<backendVars, mounted, students, checkVars, msgVars,
                   loading, sortVars, searchVars, currentPage, loads,
                   mutations, events, loginVars>>

\* handleDelete up to its await: nothing happens unless the user confirms.
handleDelete(s, confirmed) ==
    /\ UserInput
    /\ s \in Range(paginatedStudents)
    /\ IF ~confirmed
       THEN UNCHANGED <<backend, nextId, loading, mutations, events>>
       ELSE /\ Len(mutations) < MaxMutations
            /\ loading' = TRUE
            /\ \E fail \in BOOLEAN :
                  /\ BackendDelete(s.id, fail)
                  /\ mutations' =
                        Append(mutations,
                               Mutation("delete", s.id, s.name, <<>>,
                                        DeleteAnswer(s.id, fail)))
    /\ UNCHANGED <<remoteOps, mounted, students, formVars, checkVars, msgVars,
                   sortVars, searchVars, currentPage, loads, loginVars>>

\* handleDelete after its await, its error branch returning without
\* setLoading(false).
DeleteResponseStuck(i) ==
    /\ Running
    /\ i \in 1..Len(mutations)
    /\ mutations[i].op = "delete"
    /\ mutations' = RemoveAt(mutations, i)
    /\ loading' = (mutations[i].code # "ok" /\ loading)
    /\ IF mutations[i].code # "ok"
       THEN /\ errorMessage' = MsgDeleteFailed
            /\ UNCHANGED successMessage
       ELSE /\ successMessage' = SuccessDeleted(mutations[i].name)
            /\ UNCHANGED errorMessage
    /\ UNCHANGED <<backendVars, mounted, students, formVars, checkVars,
                   sortVars, searchVars, currentPage, loads, events,
                   loginVars,
                   userOps>>
    /\ MessagesSet

\* handleDelete after its await.
DeleteResponse(i) ==
    /\ Running
    /\ i \in 1..Len(mutations)
    /\ mutations[i].op = "delete"
    /\ mutations' = RemoveAt(mutations, i)
    /\ loading' = FALSE
    /\ IF mutations[i].code # "ok"
       THEN /\ errorMessage' = MsgDeleteFailed
            /\ UNCHANGED successMessage
       ELSE /\ successMessage' = SuccessDeleted(mutations[i].name)
            /\ UNCHANGED errorMessage
    /\ UNCHANGED <<backendVars, mounted, students, formVars, checkVars,
                   sortVars, searchVars, currentPage, loads, events,
                   loginVars,
                   userOps>>
    /\ MessagesSet

\* The 3 s timer of the success message fires: the banner starts to fade
\* and a 1 s timer is started.
SuccessFadeOut ==
    /\ Running
    /\ successTimeout
    /\ successTimeout' = FALSE
    /\ isSuccessVisible' = FALSE
    /\ successClears' = successClears + 1
    /\ UNCHANGED <<backendVars, mounted, students, formVars, checkVars,
                   successMessage, errorMessage, isErrorVisible, errorTimeout,
                   errorClears, loading, sortVars, searchVars, currentPage,
                   loads, mutations, events, loginVars, userOps>>

\* A 1 s timer of the success message fires: setSuccessMessage('').
SuccessClear ==
    /\ Running
    /\ successClears > 0
    /\ successClears' = successClears - 1
    /\ successMessage' = ""
    /\ UNCHANGED errorMessage
    /\ FadeEffect
    /\ UNCHANGED <<backendVars, mounted, students, formVars, checkVars,
                   errorClears, loading, sortVars, searchVars, currentPage,
                   loads, mutations, events, loginVars, userOps>>

\* The 3 s timer of the error message fires.
ErrorFadeOut ==
    /\ Running
    /\ errorTimeout
    /\ errorTimeout' = FALSE
    /\ isErrorVisible' = FALSE
    /\ errorClears' = errorClears + 1
    /\ UNCHANGED <<backendVars, mounted, students, formVars, checkVars,
                   successMessage, errorMessage, isSuccessVisible,
                   successTimeout, successClears, loading, sortVars,
                   searchVars, currentPage, loads, mutations, events,
                   loginVars, userOps>>

\* A 1 s timer of the error message fires: setErrorMessage('').
ErrorClear ==
    /\ Running
    /\ errorClears > 0
    /\ errorClears' = errorClears - 1
    /\ errorMessage' = ""
    /\ UNCHANGED successMessage
    /\ FadeEffect
    /\ UNCHANGED <<backendVars, mounted, students, formVars, checkVars,
                   successClears, loading, sortVars, searchVars, currentPage,
                   loads, mutations, events, loginVars, userOps>>

\* ------------------------------------- DashboardPage: search and pages
\* The search input's onChange: the debounced setSearchQuery is (re)scheduled.
ChangeSearch(value) ==
    /\ UserInput
    /\ value # inputValue
    /\ inputValue' = value
    /\ searchDebounce' =
          [pending |-> TRUE, value |-> value, editingId |-> NoId]
    /\ UNCHANGED <<backendVars, mounted, students, formVars, checkVars,
                   msgVars, loading, sortVars, searchQuery, pageResetPending,
                   currentPage, loads, mutations, events, loginVars>>

\* debouncedSearch, when its timer fires: setSearchQuery(value).  A changed
\* query is rendered first; the effects that depend on it run afterwards.
debouncedSearch ==
    /\ Running
    /\ searchDebounce.pending
    /\ searchDebounce' = NoDebounce
    /\ searchQuery' = searchDebounce.value
    /\ pageResetPending' = (searchDebounce.value # searchQuery)
    /\ UNCHANGED <<backendVars, mounted, students, formVars, checkVars,
                   msgVars, loading, sortVars, inputValue, currentPage,
                   loads, mutations, events, loginVars,
                   userOps>>

\* The effects of a changed searchQuery: setInputValue(searchQuery) and
\* setCurrentPage(1).
SearchEffects ==
    /\ mounted
    /\ pageResetPending
    /\ pageResetPending' = FALSE
    /\ inputValue' = searchQuery
    /\ currentPage' = 1
    /\ UNCHANGED <<backendVars, mounted, students, formVars, checkVars,
                   msgVars, loading, sortVars, searchQuery, searchDebounce,
                   loads, mutations, events, loginVars,
                   userOps>>

\* A page button of the pagination range.
GoToPage(page) ==
    /\ UserInput
    /\ page \in Range(pageRange) \ {Ellipsis, currentPage}
    /\ currentPage' = page
    /\ UNCHANGED <<backendVars, mounted, students, formVars, checkVars,
                   msgVars, loading, sortVars, searchVars, loads, mutations,
                   events, loginVars>>

\* The Previous button.
PreviousPage ==
    /\ UserInput
    /\ currentPage # 1
    /\ currentPage' = Max(currentPage - 1, 1)
    /\ UNCHANGED <<backendVars, mounted, students, formVars, checkVars,
                   msgVars, loading, sortVars, searchVars, loads, mutations,
                   events, loginVars>>

\* The Next button.
NextPage ==
    /\ UserInput
    /\ ~(currentPage >= totalPages)
    /\ currentPage' = Min(currentPage + 1, totalPages)
    /\ UNCHANGED <<backendVars, mounted, students, formVars, checkVars,
                   msgVars, loading, sortVars, searchVars, loads, mutations,
                   events, loginVars>>

\* ---------------------------------------------------- specifications
LoadNext ==
    \/ Mount
    \/ \E i \in 1..MaxLoads : LoadResponse(i)
    \/ DeliverEvent

SortNext ==
    \/ \E f \in {"name", "email"} : SetSortField(f)
    \/ \E o \in {"asc", "desc"} : SetSortOrder(o)

RemoteNext ==
    \/ \E n \in RemoteNames, e \in RemoteEmails : RemoteInsert(n, e)
    \/ \E id \in 1..MaxId, n \in RemoteNames, e \in RemoteEmails :
          RemoteUpdate(id, n, e)
    \/ \E id \in 1..MaxId : RemoteDelete(id)

FormNext ==
    \/ \E v \in NameInputs : ChangeName(v)
    \/ \E v \in EmailInputs : handleEmailChange(v)
    \/ EmailCheckStart
    \/ \E i \in 1..MaxChecks : EmailCheckResponse(i)
    \/ Submit
    \/ \E i \in 1..MaxMutations : SubmitResponse(i)
    \/ \E s \in Range(students) : handleEdit(s)
    \/ handleCancelEdit
    \/ \E s \in Range(students), c \in BOOLEAN : handleDelete(s, c)
    \/ \E i \in 1..MaxMutations : DeleteResponse(i)

FadeNext == SuccessFadeOut \/ SuccessClear \/ ErrorFadeOut \/ ErrorClear

PageNext ==
    \/ \E v \in SearchInputs : ChangeSearch(v)
    \/ debouncedSearch
    \/ SearchEffects
    \/ \E p \in 1..totalPages : GoToPage(p)
    \/ PreviousPage
    \/ NextPage

\* The list and the change feed: loads, sort changes, other sessions.
InitSync == InitDashboard(SmallTables) /\ InitLogin({1})
NextSync == LoadNext \/ SortNext \/ RemoteNext
SpecSync == InitSync /\ [][NextSync]_vars

\* The form: typing, submit, edit and delete, with another session deleting.
InitForm == InitDashboard(FormTables) /\ InitLogin({1})
NextForm == LoadNext \/ FormNext \/ \E id \in 1..MaxId : RemoteDelete(id)
SpecForm == InitForm /\ [][NextForm]_vars

\* The list view over a table of more than one page.
InitView == InitDashboard(LargeTables) /\ InitLogin({1})
NextView ==
    LoadNext \/ SortNext \/ PageNext \/ \E id \in {1, ViewRows} : RemoteDelete(id)
SpecView == InitView /\ [][NextView]_vars

\* The pages of tables of up to PageRows rows, with the search box.
InitPages == InitDashboard(PageTables) /\ InitLogin({1})
NextPages == Mount \/ (\E i \in 1..MaxLoads : LoadResponse(i)) \/ PageNext
SpecPages == InitPages /\ [][NextPages]_vars

\* The empty table and the tables of 1, 6, 11, ... rows: one row on the last
\* of 1, 2, 3, ... pages.
PagerTables ==
    {{PagerRow(i) : i \in 1..n} :
        n \in {k \in 0..PagerRows : k = 0 \/ k % studentsPerPage = 1}}

\* The pagination controls over tables of up to PagerRows rows.
InitPager == InitDashboard(PagerTables) /\ InitLogin({1})
NextPager ==
    \/ Mount
    \/ \E i \in 1..MaxLoads : LoadResponse(i)
    \/ \E p \in 1..totalPages : GoToPage(p)
    \/ PreviousPage
    \/ NextPage
SpecPager == InitPager /\ [][NextPager]_vars

\* Search and sort over tables of no, one, two and ViewRows rows.
InitSort == InitDashboard(SmallTables \cup LargeTables) /\ InitLogin({1})
NextSort ==
    \/ Mount
    \/ \E i \in 1..MaxLoads : LoadResponse(i)
    \/ SortNext
    \/ \E v \in SearchInputs : ChangeSearch(v)
    \/ debouncedSearch
    \/ SearchEffects
SpecSort == InitSort /\ [][NextSort]_vars

\* The e-mail field over the texts of EmailStrings.
InitEmail == InitDashboard({{}}) /\ InitLogin({1})
NextEmail ==
    \/ Mount
    \/ \E i \in 1..MaxLoads : LoadResponse(i)
    \/ \E v \in EmailStrings : handleEmailChange(v)
SpecEmail == InitEmail /\ [][NextEmail]_vars

\* The banners: a failing load, rejected submits and deletes set messages,
\* and every timer that is pending fires in the end.
InitBanner == InitDashboard({{SampleRow(1)}}) /\ InitLogin({1})
NextBanner ==
    \/ Mount
    \/ \E i \in 1..MaxLoads : LoadResponse(i)
    \/ DeliverEvent
    \/ Submit
    \/ \E s \in Range(students), c \in BOOLEAN : handleDelete(s, c)
    \/ \E i \in 1..MaxMutations : DeleteResponse(i)
    \/ FadeNext
SpecBanner ==
    /\ InitBanner
    /\ [][NextBanner]_vars
    /\ WF_vars(SuccessFadeOut)
    /\ WF_vars(SuccessClear)
    /\ WF_vars(ErrorFadeOut)
    /\ WF_vars(ErrorClear)

\* ------------------------------------------------------------ LoginPage
PasswordShort == <<"A", "a", "1", "!">>
PasswordNoSymbol == <<"A", "a", "1", "a", "a", "a", "a", "a">>
PasswordStrong == <<"A", "a", "1", "!", "a", "a", "a", "a">>
\* What the user can put into the password field.
PasswordInputs == {PasswordShort, PasswordNoSymbol, PasswordStrong}

\* The five checks of validatePassword, in their order.
PasswordPolicy(pwd) ==
    IF Len(pwd) < 8 THEN "Password must be at least 8 characters"
    ELSE IF ~\E i \in 1..Len(pwd) : IsUpper(pwd[i])
    THEN "Password must contain an uppercase letter"
    ELSE IF ~\E i \in 1..Len(pwd) : IsLower(pwd[i])
    THEN "Password must contain a lowercase letter"
    ELSE IF ~\E i \in 1..Len(pwd) : IsDigit(pwd[i])
    THEN "Password must contain a number"
    ELSE IF ~\E i \in 1..Len(pwd) : pwd[i] \in SymbolChars
    THEN "Password must contain a special character"
    ELSE ""

\* validatePassword: the second variant skips the checks in login mode.
validatePassword(pwd) ==
    IF loginVariant = 2 /\ ~isSignUp THEN "" ELSE PasswordPolicy(pwd)

\* The password input's onChange: the first variant validates in sign-up
\* mode only and otherwise leaves passwordError as it is.
ChangePassword(value) ==
    /\ ~navigated
    /\ ~loginLoading
    /\ value # password
    /\ password' = value
    /\ passwordError' =
          IF loginVariant = 1 /\ ~isSignUp THEN passwordError
          ELSE validatePassword(value)
    /\ UNCHANGED <<backendVars, dashVars, loginVariant, loginError,
                   loginLoading, isSignUp, authRequests, navigated>>

\* The mode toggle: setIsSignUp(!isSignUp).
ToggleSignUp ==
    /\ ~navigated
    /\ ~loginLoading
    /\ isSignUp' = ~isSignUp
    /\ UNCHANGED <<backendVars, dashVars, loginVariant, password,
                   passwordError, loginError, loginLoading, authRequests,
                   navigated>>

\* The submit button's disabled attribute.
SubmitDisabled ==
    IF loginVariant = 1
    THEN loginLoading \/ (isSignUp /\ passwordError # "")
    ELSE loginLoading \/ passwordError # ""

AuthRequest(outcome) ==
    [kind |-> IF isSignUp THEN "signUp" ELSE "signIn",
     password |-> password, outcome |-> outcome]

\* handleAuth up to its await.  The first variant stops on the stored
\* passwordError in sign-up mode; the second validates the password afresh.
handleAuth ==
    /\ ~navigated
    /\ ~SubmitDisabled
    /\ loginError' =
          IF loginVariant = 1 /\ isSignUp /\ passwordError # ""
          THEN passwordError
          ELSE ""
    /\ IF loginVariant = 1
       THEN IF isSignUp /\ passwordError # ""
            THEN UNCHANGED <<passwordError, loginLoading, authRequests>>
            ELSE /\ Len(authRequests) < MaxAuth
                 /\ loginLoading' = TRUE
                 /\ \E outcome \in {"ok", "error", "throw"} :
                       authRequests' =
                          Append(authRequests, AuthRequest(outcome))
                 /\ UNCHANGED passwordError
       ELSE IF isSignUp /\ validatePassword(password) # ""
            THEN /\ passwordError' = validatePassword(password)
                 /\ UNCHANGED <<loginLoading, authRequests>>
            ELSE /\ Len(authRequests) < MaxAuth
                 /\ passwordError' = ""
                 /\ loginLoading' = TRUE
                 /\ \E outcome \in {"ok", "error", "throw"} :
                       authRequests' =
                          Append(authRequests, AuthRequest(outcome))
    /\ UNCHANGED <<backendVars, dashVars, loginVariant, password, isSignUp,
                   navigated>>

\* handleAuth after its await, navigating without looking at result.error.
AuthResponseUnchecked(i) ==
    /\ i \in 1..Len(authRequests)
    /\ authRequests' = RemoveAt(authRequests, i)
    /\ loginLoading' = FALSE
    /\ loginError' =
          IF authRequests[i].outcome = "throw" THEN MsgUnexpected
          ELSE loginError
    /\ navigated' = (navigated \/ authRequests[i].outcome # "throw")
    /\ UNCHANGED <<backendVars, dashVars, loginVariant, password,
                   passwordError, isSignUp>>

\* handleAuth after its await: the error, the navigation or the catch, and
\* setLoading(false) in the finally block.
AuthResponse(i) ==
    /\ i \in 1..Len(authRequests)
    /\ authRequests' = RemoveAt(authRequests, i)
    /\ loginLoading' = FALSE
    /\ loginError' =
          IF authRequests[i].outcome = "error" THEN MsgAuthFailed
          ELSE IF authRequests[i].outcome = "throw" THEN MsgUnexpected
          ELSE loginError
    /\ navigated' = (navigated \/ authRequests[i].outcome = "ok")
    /\ UNCHANGED <<backendVars, dashVars, loginVariant, password,
                   passwordError, isSignUp>>

LoginNext ==
    \/ \E v \in PasswordInputs : ChangePassword(v)
    \/ ToggleSignUp
    \/ handleAuth
    \/ \E i \in 1..MaxAuth : AuthResponse(i)

\* The login page, in either of its two variants.
InitAuth == InitDashboard({{}}) /\ InitLogin({1, 2})
SpecLogin == InitAuth /\ [][LoginNext]_vars

\* The whole front end.
Init == InitDashboard(SmallTables) /\ InitLogin({1, 2})
Next ==
    LoadNext \/ SortNext \/ RemoteNext \/ FormNext \/ FadeNext \/ PageNext
        \/ LoginNext
Spec == Init /\ [][Next]_vars

\* ================================================================ claims
\* How often a record with the id occurs in a list.
CountId(list, id) == Cardinality({k \in 1..Len(list) : list[k].id = id})

\* C1: in every state whose effects have run, the current page lies in
\* [1, max(1, ceil(filteredCount / 5))], filteredCount being the number of
\* students that match the search query.
C1_PageWithinRange ==
    (mounted /\ ~pageResetPending) =>
        LET filteredCount == Len(SelectSeq(students, MatchesSearch))
        IN  /\ 1 <= currentPage
            /\ currentPage <= Max(1, (filteredCount + 4) \div 5)

\* C2: when nothing is in flight (every load and every mutating call has
\* responded, every change event is delivered) and no load has failed, the
\* local list holds exactly the backend's rows.
C2_ListConverged ==
    (/\ mounted
     /\ loads = <<>>
     /\ events = <<>>
     /\ mutations = <<>>
     /\ errorMessage # MsgFetchFailed)
        => Range(students) = backend

\* C3: no insert or update is sent for an e-mail that another record of the
\* backend holds when the submit is made (such a request is the one the
\* backend answers with code 23505).
C3_NoDuplicateSent ==
    \A i \in 1..Len(mutations) : mutations[i].code # "23505"

\* C4: a submit in create mode with a name that is not blank and a
\* well-formed e-mail that no record uses is sent to the backend, and when
\* its insert has succeeded the local list holds the returned row exactly
\* once and the form fields are empty.
C4_CreateAppendsOne ==
    [][/\ (/\ Submit
           /\ editingStudentId = NoId
           /\ trim(name) # <<>>
           /\ isValidEmail(email)
           /\ \A r \in backend \cup Range(students) : r.email # email)
          => Len(mutations') = Len(mutations) + 1
       /\ \A i \in 1..Len(mutations) :
             (/\ mutations[i].op = "insert"
              /\ mutations[i].code = "ok"
              /\ SubmitResponse(i))
                => /\ CountId(students', mutations[i].data[1].id) = 1
                   /\ mutations[i].data[1] \in Range(students')
                   /\ name' = <<>>
                   /\ email' = <<>>]_vars

\* C5: when a submit in edit mode has succeeded, the local record with the
\* edited id is the returned row, the other records and the length of the
\* list are as before, the success message is shown and edit mode is off.
C5_UpdateReplaces ==
    [][\A i \in 1..Len(mutations) :
          (/\ mutations[i].op = "update"
           /\ mutations[i].code = "ok"
           /\ Len(mutations[i].data) > 0
           /\ SubmitResponse(i))
             => /\ Len(students') = Len(students)
                /\ \A k \in 1..Len(students) :
                      students'[k] =
                         IF students[k].id = mutations[i].id
                         THEN mutations[i].data[1]
                         ELSE students[k]
                /\ successMessage' = SuccessUpdated(mutations[i].name,
                                                    mutations[i].email)
                /\ editingStudentId' = NoId
                /\ name' = <<>>
                /\ email' = <<>>]_vars

\* C6: a delete request is sent only by a confirmed handleDelete, and when
\* the delete has succeeded the local list holds no record with that id
\* and still holds every record with another id.
C6_DeleteRemoves ==
    [][/\ (/\ Len(mutations') > Len(mutations)
           /\ mutations'[Len(mutations')].op = "delete")
          => \E s \in Range(students) : handleDelete(s, TRUE)
       /\ \A i \in 1..Len(mutations) :
             (/\ mutations[i].op = "delete"
              /\ mutations[i].code = "ok"
              /\ DeleteResponse(i))
                => /\ CountId(students', mutations[i].id) = 0
                   /\ \A k \in 1..Len(students) :
                         students[k].id # mutations[i].id
                            => students[k] \in Range(students')]_vars

\* C7: delivering an insert event appends its row to the list as it is, and
\* no load or mutating call that completes afterwards takes a row the
\* backend holds out of the list again.
C7_InsertEventKept ==
    [][/\ (/\ events # <<>>
           /\ Head(events).type = "INSERT"
           /\ DeliverEvent)
          => students' = Append(students, Head(events).row)
       /\ ((\E i \in 1..Len(loads) : LoadResponse(i))
              \/ (\E i \in 1..Len(mutations) :
                     SubmitResponse(i) \/ DeleteResponse(i)))
          => \A k \in 1..Len(students) :
                students[k] \in backend
                   => CountId(students', students[k].id) > 0]_vars

\* C8: at most one mutating request (insert, update or delete) of the
\* session is in flight.
C8_OneMutationInFlight == Len(mutations) <= 1

\* The password-strength policy: eight characters or more, with an
\* upper-case letter, a lower-case letter, a digit and one of !@#$%^&*.
MeetsPolicy(pwd) ==
    /\ Len(pwd) >= 8
    /\ \E i \in 1..Len(pwd) : IsUpper(pwd[i])
    /\ \E i \in 1..Len(pwd) : IsLower(pwd[i])
    /\ \E i \in 1..Len(pwd) : IsDigit(pwd[i])
    /\ \E i \in 1..Len(pwd) : pwd[i] \in SymbolChars

\* C9: every sign-up request in flight carries a password that meets the
\* policy.
C9_SignUpPasswordStrong ==
    \A i \in 1..Len(authRequests) :
        authRequests[i].kind = "signUp"
           => MeetsPolicy(authRequests[i].password)

\* C10: in login mode the submit button is enabled whenever no request is
\* in flight.
C10_LoginNeverBlocked ==
    (~navigated /\ ~isSignUp /\ ~loginLoading) => ~SubmitDisabled

\* C11: a submit whose name or e-mail is empty after trimming, or whose
\* e-mail is malformed, sends nothing to the backend, leaves the list, the
\* form fields and the editing id as they are, and sets the empty-field
\* message if a field is empty and the malformed-e-mail message otherwise.
C11_InvalidSubmitStops ==
    [][(/\ Submit
        /\ \/ trim(name) = <<>>
           \/ trim(email) = <<>>
           \/ ~isValidEmail(email))
          => /\ mutations' = mutations
             /\ backend' = backend
             /\ events' = events
             /\ students' = students
             /\ name' = name
             /\ email' = email
             /\ editingStudentId' = editingStudentId
             /\ errorMessage' =
                   IF trim(name) = <<>> \/ trim(email) = <<>>
                   THEN MsgFillBoth
                   ELSE MsgInvalidEmail]_vars

\* A submit with a blank name and a malformed e-mail has been rejected with
\* the empty-field message.
C11_Witness ==
    /\ errorMessage = MsgFillBoth
    /\ name # <<>>
    /\ trim(name) = <<>>
    /\ email # <<>>
    /\ ~isValidEmail(email)
    /\ mutations = <<>>

\* C12: handling the error answer of a load, an insert, an update or a
\* delete leaves the local list as it is and sets an error message; a failed
\* load keeps the list it found, a failed delete keeps the record.
C12_FailureKeepsList ==
    [][/\ \A i \in 1..Len(loads) :
             (loads[i].error /\ LoadResponse(i))
                => /\ students' = students
                   /\ errorMessage' = MsgFetchFailed
       /\ \A i \in 1..Len(mutations) :
             (/\ mutations[i].code # "ok"
              /\ SubmitResponse(i) \/ DeleteResponse(i))
                => /\ students' = students
                   /\ errorMessage' \in {MsgInUseByAnother, MsgAddFailed,
                                         MsgUpdateFailed, MsgDeleteFailed}
                   /\ mutations[i].op = "delete"
                         => /\ errorMessage' = MsgDeleteFailed
                            /\ CountId(students', mutations[i].id)
                                  = CountId(students, mutations[i].id)]_vars

\* A load has failed after an earlier one filled the list, and the list is
\* still there.
C12_Witness ==
    /\ errorMessage = MsgFetchFailed
    /\ students # <<>>
    /\ loads = <<>>

\* C13: an insert or update answered with code 23505 shows the message the
\* uniqueness pre-check shows for a duplicate e-mail, and one answered with
\* another error shows the backend's message as it is.
C13_ErrorTranslation ==
    [][\A i \in 1..Len(mutations) :
          (mutations[i].code # "ok" /\ SubmitResponse(i))
             => errorMessage' =
                   IF mutations[i].code = "23505" THEN MsgInUse
                   ELSE ErrorText]_vars

\* C14: a step that changes the search query, the sort key or the sort
\* direction ends in a view whose current page is 1.
C14_PageResetWithChange ==
    [][(\/ searchQuery' # searchQuery
        \/ sortField' # sortField
        \/ sortOrder' # sortOrder)
          => currentPage' = 1]_vars

\* The least t with 5 * t >= n.
CeilFifth(n) == CHOOSE t \in 0..n : 5 * t >= n /\ 5 * (t - 1) < n

\* C15: with n matching records, totalPages is max(1, ceil(n / 5)) and the
\* page shown holds the records at positions (p-1)*5+1 .. min(p*5, n) of the
\* sorted filtered list in that order; 12 records give 3 pages and page 3
\* holds records 11 and 12; no matching record gives one empty page.
C15_Pagination ==
    mounted =>
        LET n == Len(SelectSeq(students, MatchesSearch))
            p == currentPage
            first == (p - 1) * 5 + 1
            last == IF p * 5 <= n THEN p * 5 ELSE n
        IN  /\ totalPages = (IF CeilFifth(n) >= 1 THEN CeilFifth(n) ELSE 1)
            /\ Len(paginatedStudents) = (IF last >= first
                                         THEN last - first + 1 ELSE 0)
            /\ \A k \in 1..Len(paginatedStudents) :
                  paginatedStudents[k] = sortedFilteredStudents[first + k - 1]
            /\ (n = 12 /\ p = 3)
                  => /\ totalPages = 3
                     /\ paginatedStudents = <<sortedFilteredStudents[11],
                                              sortedFilteredStudents[12]>>
            /\ n = 0 => (paginatedStudents = <<>> /\ totalPages = 1)

\* Page 3 of 12 matching records is shown.
C15_Witness ==
    /\ mounted
    /\ Len(sortedFilteredStudents) = 12
    /\ currentPage = 3
    /\ Len(paginatedStudents) = 2

\* q occurs in text, letters compared without regard to case.
ContainsFolded(text, q) ==
    \E i \in 0..(Len(text) - Len(q)) :
        \A k \in 1..Len(q) : LowerChar(text[i + k]) = LowerChar(q[k])

\* How often a record occurs in a list.
CountRow(list, r) == Cardinality({k \in 1..Len(list) : list[k] = r})

\* C16: the filtered-and-sorted view holds the students whose name or
\* e-mail contains the search text without regard to case, as often as the
\* list holds them, and no others; its sort keys, compared without regard
\* to case, do not decrease (ascending) or do not increase (descending);
\* the list [A, b] by name is [A, b] ascending and [b, A] descending.
C16_FilterSort ==
    mounted =>
        LET view == sortedFilteredStudents
            key(r) == toLowerCase(r[sortField])
        IN  /\ \A r \in Range(students) \cup Range(view) :
                  CountRow(view, r) =
                     IF \/ ContainsFolded(r.name, searchQuery)
                        \/ ContainsFolded(r.email, searchQuery)
                     THEN CountRow(students, r)
                     ELSE 0
            /\ \A j \in 1..(Len(view) - 1) :
                  IF sortOrder = "asc"
                  THEN localeCompare(key(view[j]), key(view[j + 1])) <= 0
                  ELSE localeCompare(key(view[j]), key(view[j + 1])) >= 0
            /\ (/\ Range(students) = {SampleRow(1), SampleRow(2)}
                /\ Len(students) = 2
                /\ searchQuery = <<>>
                /\ sortField = "name")
                  => view = IF sortOrder = "asc"
                            THEN <<SampleRow(1), SampleRow(2)>>
                            ELSE <<SampleRow(2), SampleRow(1)>>

\* The list [A, b] in ascending order is shown by name, descending.
C16_Witness ==
    /\ mounted
    /\ students = <<SampleRow(1), SampleRow(2)>>
    /\ searchQuery = <<>>
    /\ sortField = "name"
    /\ sortOrder = "desc"
    /\ sortedFilteredStudents = <<SampleRow(2), SampleRow(1)>>

\* The '@' signs of a text, and the positions of its '.' after the first.
AtSigns(e) == {i \in 1..Len(e) : e[i] = "@"}
DotsAfterAt(e) ==
    {j \in 1..Len(e) : e[j] = "." /\ \E i \in AtSigns(e) : i < j}
\* local@domain.tld with non-empty parts free of white space and '@'.
WellFormedEmail(e) ==
    \E i \in 1..Len(e) : \E j \in (i + 1)..Len(e) :
        LET local == SubSeq(e, 1, i - 1)
            domain == SubSeq(e, i + 1, j - 1)
            tld == SubSeq(e, j + 1, Len(e))
            Plain(part) ==
                part # <<>> /\ \A k \in 1..Len(part) : part[k] \notin {" ", "@"}
        IN  /\ e[i] = "@"
            /\ e[j] = "."
            /\ Plain(local)
            /\ Plain(domain)
            /\ Plain(tld)

\* C17: the e-mail pattern rejects a text without '@', a text without a
\* '.' after the '@', a text with white space and a text with a second '@',
\* and accepts local@domain.tld with non-empty parts free of white space
\* and '@'; the e-mail field shows no error exactly for an accepted text.
C17_EmailPattern ==
    /\ AtSigns(email) = {} => ~isValidEmail(email)
    /\ DotsAfterAt(email) = {} => ~isValidEmail(email)
    /\ (\E k \in 1..Len(email) : email[k] = " ") => ~isValidEmail(email)
    /\ Cardinality(AtSigns(email)) > 1 => ~isValidEmail(email)
    /\ WellFormedEmail(email) => isValidEmail(email)
    /\ email # <<>> => ((emailError = "") <=> isValidEmail(email))

\* An accepted text and a rejected text with white space have been typed.
C17_Witness ==
    /\ email = InsertAt(EmailA, 0, " ")
    /\ emailError = MsgEmailInvalid
    /\ emailDebounce.pending
    /\ emailDebounce.value = EmailA

\* C18: a success or error message that is set is cleared in the end,
\* whatever other message is set while it is displayed or fading out.
C18_BannersFade ==
    /\ (successMessage # "") ~> (successMessage = "")
    /\ (errorMessage # "") ~> (errorMessage = "")

\* A success message has been set while the error message was fading out.
C18_Witness ==
    /\ successMessage # ""
    /\ errorMessage # ""
    /\ errorClears > 0
    /\ errorTimeout

\* C19: when every load and every mutating call that was issued has been
\* answered, with success or with an error, the request-in-flight flag is
\* false.
C19_NotStuck ==
    (mounted /\ loads = <<>> /\ mutations = <<>>) => ~loading

\* A delete has failed, nothing is in flight and the form is enabled.
C19_Witness ==
    /\ mounted
    /\ loads = <<>>
    /\ mutations = <<>>
    /\ errorMessage = MsgDeleteFailed
    /\ ~loading

\* C20: only the answer of a sign-in or sign-up call that returned without
\* an error navigates to the dashboard; an answer with an error, or a thrown
\* exception, does not navigate, sets an error message (the generic one for
\* an exception) and leaves the loading flag false.
C20_AuthOutcome ==
    [][/\ (navigated' /\ ~navigated)
          => \E i \in 1..Len(authRequests) :
                AuthResponse(i) /\ authRequests[i].outcome = "ok"
       /\ \A i \in 1..Len(authRequests) :
             (AuthResponse(i) /\ authRequests[i].outcome # "ok")
                => /\ navigated' = navigated
                   /\ loginError' # ""
                   /\ authRequests[i].outcome = "throw"
                         => loginError' = MsgUnexpected
                   /\ ~loginLoading']_vars

\* A sign-up call has thrown: no navigation, the generic message, not loading.
C20_Witness ==
    /\ ~navigated
    /\ isSignUp
    /\ loginError = MsgUnexpected
    /\ ~loginLoading
    /\ authRequests = <<>>

\* C21: delivering an UPDATE event puts the event's row at every position
\* that holds a record with its id and leaves the length and the other
\* positions as they are; delivering a DELETE event leaves exactly the
\* records with another id, in their order; an UPDATE or DELETE for an id
\* that is not in the list leaves the list unchanged.
C21_EventFrame ==
    [][(events # <<>> /\ DeliverEvent) =>
          LET ev == Head(events)
          IN  /\ ev.type = "UPDATE" =>
                    /\ Len(students') = Len(students)
                    /\ \A k \in 1..Len(students) :
                          students'[k] =
                             IF students[k].id = ev.row.id THEN ev.row
                             ELSE students[k]
              /\ ev.type = "DELETE" =>
                    /\ CountId(students', ev.row.id) = 0
                    /\ students' =
                          SelectSeq(students, LAMBDA r : r.id # ev.row.id)
              /\ (ev.type # "INSERT" /\ CountId(students, ev.row.id) = 0)
                    => students' = students]_vars

\* The feed is about to deliver a DELETE for an id the list no longer holds
\* and then an UPDATE for a record that the list holds.
C21_Witness ==
    /\ mounted
    /\ students # <<>>
    /\ Len(events) = 2
    /\ events[1].type = "DELETE"
    /\ CountId(students, events[1].row.id) = 0
    /\ events[2].type = "UPDATE"
    /\ CountId(students, events[2].row.id) = 1
    /\ events[2].row \notin Range(students)

\* C22: a step that changes the sort key or the sort direction leaves the
\* list as it is and sends one more load, whose answer is an error or the
\* backend's rows of that moment ordered by the new key and direction; and
\* the handling of a load's successful answer makes the local list that
\* answer, whatever the list held before.
C22_SortOverwritesList ==
    [][/\ (sortField' # sortField \/ sortOrder' # sortOrder) =>
             /\ students' = students
             /\ loading'
             /\ Len(loads') = Len(loads) + 1
             /\ SubSeq(loads', 1, Len(loads)) = loads
             /\ LET sent == loads'[Len(loads')]
                IN  ~sent.error =>
                       /\ Range(sent.data) = backend
                       /\ Len(sent.data) = Cardinality(backend)
                       /\ \A k \in 1..(Len(sent.data) - 1) :
                             LET c == localeCompare(
                                          sent.data[k][sortField'],
                                          sent.data[k + 1][sortField'])
                             IN  IF sortOrder' = "asc" THEN c <= 0 ELSE c >= 0
       /\ \A i \in 1..Len(loads) :
             (LoadResponse(i) /\ ~loads[i].error)
                => students' = loads[i].data]_vars

\* The sort key was changed, and the one load in flight is about to replace
\* a list that holds a backend row, merged from a delivered change event,
\* which the load's answer lacks.
C22_Witness ==
    /\ sortField = "email"
    /\ events = <<>>
    /\ Len(loads) = 1
    /\ ~loads[1].error
    /\ \E k \in 1..Len(students) :
          /\ students[k] \in backend
          /\ students[k] \notin Range(loads[1].data)

\* The form in empty create mode, with no field-validation error.
EmptyCreateForm ==
    /\ name = <<>>
    /\ email = <<>>
    /\ editingStudentId = NoId
    /\ nameError = ""
    /\ emailError = ""

\* C23: handleEdit of a student puts its name, e-mail and id into the form;
\* handleCancelEdit ends in the empty create-mode form with no field error;
\* and that form stays as it is in every step that is not a user input, the
\* completion of an e-mail uniqueness check included.
C23_EditCancel ==
    [][/\ \A s \in Range(students) :
             handleEdit(s) => /\ name' = s.name
                              /\ email' = s.email
                              /\ editingStudentId' = s.id
       /\ handleCancelEdit => EmptyCreateForm'
       /\ (EmptyCreateForm /\ userOps' = userOps) => EmptyCreateForm']_vars

\* C24: the local list holds at most one record per id.
C24_UniqueIds ==
    \A j, k \in 1..Len(students) :
        students[j].id = students[k].id => j = k

\* C25: the handling of the answer of a submitted insert or update sets a
\* message: the error message of an answer with an error, the success
\* message of an answer without one, also when an accepted update matched
\* no row; the form is not emptied without a message being shown.
C25_SubmitEndsWithMessage ==
    [][\A i \in 1..Len(mutations) :
          SubmitResponse(i) =>
             /\ mutations[i].code # "ok" =>
                   errorMessage' \in {MsgInUseByAnother, MsgAddFailed,
                                      MsgUpdateFailed}
             /\ mutations[i].code = "ok" =>
                   successMessage' =
                      IF mutations[i].op = "update"
                      THEN SuccessUpdated(mutations[i].name,
                                          mutations[i].email)
                      ELSE SuccessAdded(mutations[i].name,
                                        mutations[i].email)
             /\ (name # <<>> /\ name' = <<>>) =>
                   (successMessage' # NoSuccess \/ errorMessage' # "")]_vars

\* What C26 says of a pagination range pr shown on page p of t pages.
PageRangeAsClaimed(pr, p, t) ==
    LET n == Len(pr)
        listed == {pr[k] : k \in {j \in 1..n : pr[j] # Ellipsis}}
    IN  /\ 1 <= p /\ p <= t
        /\ \A j, k \in 1..n :
              (j < k /\ pr[j] # Ellipsis /\ pr[k] # Ellipsis) => pr[j] < pr[k]
        /\ {1, t, p} \subseteq listed
        /\ listed \subseteq 1..t
        /\ \E a \in 1..p :
              \E b \in p..Min(t, a + 4) : listed = {1, t} \cup (a..b)
        /\ \A k \in 1..(n - 1) :
              (pr[k] # Ellipsis /\ pr[k + 1] # Ellipsis)
                 => pr[k + 1] = pr[k] + 1
        /\ \A k \in 1..n :
              pr[k] = Ellipsis
                 => /\ 1 < k /\ k < n
                    /\ pr[k - 1] # Ellipsis
                    /\ pr[k + 1] # Ellipsis
                    /\ pr[k + 1] - pr[k - 1] > 1

\* C26: on every page of a mounted view the pagination range lists its page
\* numbers in strictly increasing order; the numbers are page 1, the last
\* page and a block of at most 5 consecutive pages that holds the current
\* page; two listed numbers next to each other are consecutive, and an
\* ellipsis stands between two listed numbers that differ by more than 1 and
\* nowhere else.
C26_PageRange ==
    mounted => PageRangeAsClaimed(pageRange, currentPage, totalPages)

\* Page 5 of 9: an ellipsis on either side of the pages 3 to 7.
C26_Witness ==
    /\ mounted
    /\ currentPage = 5
    /\ pageRange = <<1, Ellipsis, 3, 4, 5, 6, 7, Ellipsis, 9>>

====
